---- MODULE Spec2Model ----
(***************************************************************************)
(* Model of the personality-profile core of friendship-ai-backend:         *)
(*   - PersonalityAnalyzer  (lexicon scorer, classifier fallback, profile  *)
(*     updater, completion-time enrichment),                               *)
(*   - ConversationAI       (session registry, process_message, phases),   *)
(*   - MatchingEngine       (pairwise scoring).                            *)
(*                                                                         *)
(* Numbers.  Python floats in [0,1] are held as integers in units of       *)
(* 1/Scale; a quotient that does not fall on that grid is rounded to the   *)
(* nearest unit (RoundDiv), the model's counterpart of float rounding.     *)
(* The learning rate alpha is kept as an exact fraction num/den.           *)
(*                                                                         *)
(* Messages.  session.messages is held by the figures the code reads from  *)
(* it: how many messages the subject and the AI wrote, and the subject's   *)
(* total characters, emoji runs and question marks.                        *)
(***************************************************************************)
EXTENDS Integers, Sequences, FiniteSets, TLC

VARIABLES
    user_profiles,    \* ConversationAI.user_profiles : user_id -> PersonalityProfile
    active_sessions,  \* ConversationAI.active_sessions : user_id -> ConversationSession
    sessions_started, \* number of sessions created so far (stands for uuid4 freshness)
    last,             \* what the most recent handler observed and did (history)
    enrich_calls,     \* user_id -> how often detect_interests has been invoked (history)
    msgs_sent,        \* subject messages sent so far in this run
    update_calls,     \* direct update_personality_profile calls so far in this run
    engine_profiles,  \* MatchingEngine.user_profiles, its profiles in insertion order
    match_out,        \* what the matching engine returned last
    best_out,         \* what the last call on the matching pool was given and returned
    env,              \* the environment of this run: what the subject writes and
                      \* what the classifier service answers, message by message
    tasks             \* the process_message calls in flight, each with its position
                      \* and its local variables

\* the matching engine's part of the state
engine_vars == <<engine_profiles, match_out, best_out>>

vars == <<user_profiles, active_sessions, sessions_started, last, enrich_calls, msgs_sent,
          update_calls, env, tasks, engine_vars>>

-----------------------------------------------------------------------------
(* Bounds of the model *)

\* subject messages sent in one run, over all its sessions
MaxMsgs == 32

\* sessions started in one run
MaxSessions == 2

\* direct update_personality_profile calls in the updater specification
MaxUpdates == 2

Users == {"u1"}

-----------------------------------------------------------------------------
(* Numbers *)

\* 1.0 in model units
Scale == 1000

Min(a, b) == IF a <= b THEN a ELSE b
Max(a, b) == IF a >= b THEN a ELSE b
Abs(a) == IF a >= 0 THEN a ELSE -a

\* a / b rounded to the nearest integer, b > 0
RoundDiv(a, b) == (2 * a + b) \div (2 * b)

\* p/100 in model units
Pct(p) == (p * Scale) \div 100

\* exact fractions with a positive denominator
Frac(n, d) == IF d > 0 THEN [num |-> n, den |-> d] ELSE [num |-> -n, den |-> -d]
FracLeq(a, b) == a.num * b.den <= b.num * a.den
FracMax(a, b) == IF FracLeq(b, a) THEN a ELSE b

-----------------------------------------------------------------------------
(* models/personality.py *)

Traits == {"openness", "conscientiousness", "extraversion", "agreeableness", "neuroticism"}

\* communication_style: Optional[str] = None
None == "None"

\* PersonalityProfile(user_id=u) with its field defaults
PersonalityProfile(u) ==
    [ user_id                 |-> u,
      openness                |-> Pct(50),
      conscientiousness       |-> Pct(50),
      extraversion            |-> Pct(50),
      agreeableness           |-> Pct(50),
      neuroticism             |-> Pct(50),
      communication_style     |-> None,
      interests               |-> <<>>,
      analysis_confidence     |-> 0,
      total_messages_analyzed |-> 0,
      is_complete             |-> FALSE ]

\* ConversationSession(session_id=id, user_id=u, analysis_phase=1)
ConversationSession(id, u) ==
    [ session_id           |-> id,
      user_id              |-> u,
      messages             |-> [user |-> 0, ai |-> 0, chars |-> 0, emojis |-> 0, questions |-> 0],
      analysis_phase       |-> 1,
      is_analysis_complete |-> FALSE ]

\* dict.get(key, default)
Get(d, k, default) == IF k \in DOMAIN d THEN d[k] ELSE default

-----------------------------------------------------------------------------
(* services/personality_analyzer.py *)

\* min(max(x, 0.0), 1.0)
Clamp01(x) == Min(Max(x, 0), Scale)

\* A subject message, by what the code reads from its text: its length, its
\* emoji runs, its question marks, and per trait the number of positive and
\* negative TRAIT_INDICATORS words it contains.
NoHits == [t \in Traits |-> [pos |-> 0, neg |-> 0]]

\* "evet"
MsgPlain == [chars |-> 4, emojis |-> 0, questions |-> 0, hits |-> NoHits]

\* "yeni": one positive openness indicator
MsgKeyword ==
    [chars |-> 4, emojis |-> 0, questions |-> 0,
     hits |-> [NoHits EXCEPT !["openness"] = [pos |-> 1, neg |-> 0]]]

MsgKinds == {MsgPlain, MsgKeyword}

\* What a subject writes over a session: the k-th message of a session is
\* element ((k-1) mod Len) + 1 of the script.
MsgScripts == {<<MsgPlain>>, <<MsgKeyword>>, <<MsgKeyword, MsgPlain, MsgPlain>>}

\* PersonalityAnalyzer._analyze_keywords
AnalyzeKeywords(message) ==
    [t \in Traits |->
        LET positive_count == message.hits[t].pos
            negative_count == message.hits[t].neg
            total == positive_count + negative_count
        IN  IF total > 0
            THEN Clamp01(RoundDiv((2 * positive_count + total) * Scale, 4 * total))
            ELSE Pct(50)]

\* What the external classifier call can come back with: it throws, it returns
\* text that json.loads or float() rejects, or it returns a JSON object whose
\* scores may be missing or out of range.
NoScores == [t \in {} |-> 0]
ClsThrow == [kind |-> "throw", scores |-> NoScores]
ClsUnparsable == [kind |-> "unparsable", scores |-> NoScores]
\* {"openness": 0.9, rest 0.5}
ClsOpen ==
    [kind |-> "json",
     scores |-> [t \in Traits |-> IF t = "openness" THEN Pct(90) ELSE Pct(50)]]
\* {"openness": 1.7}: out of range, other traits missing
ClsWild == [kind |-> "json", scores |-> [t \in {"openness"} |-> Pct(170)]]

ClsOutcomes == {ClsThrow, ClsUnparsable, ClsOpen, ClsWild}

\* How the classifier service behaves over a session: down, garbling, healthy,
\* erratic, or failing every other call.
ClsScripts == {<<ClsThrow>>, <<ClsUnparsable>>, <<ClsOpen>>, <<ClsWild>>, <<ClsThrow, ClsOpen>>}

\* element k of a script, cyclically
At(script, k) == script[((k - 1) % Len(script)) + 1]

NeutralScores == [t \in Traits |-> Pct(50)]

\* mutant: a failed call yields scores of 0.0
AnalyzeWithLlmZero(cls) ==
    [t \in Traits |-> IF cls.kind = "json" THEN Clamp01(Get(cls.scores, t, Pct(50))) ELSE 0]

\* PersonalityAnalyzer._analyze_with_llm: validated scores, or the neutral
\* vector when the try block raises
AnalyzeWithLlm(cls) ==
    IF cls.kind = "json"
    THEN [t \in Traits |-> Clamp01(Get(cls.scores, t, Pct(50)))]
    ELSE NeutralScores

\* keyword_score * 0.3 + llm_score * 0.7
Combine(keyword_score, llm_score) == RoundDiv(3 * keyword_score + 7 * llm_score, 10)

\* PersonalityAnalyzer.analyze_message
AnalyzeMessage(message, cls) ==
    LET keyword_scores == AnalyzeKeywords(message)
        llm_scores == AnalyzeWithLlm(cls)
    IN  [t \in Traits |->
            Combine(Get(keyword_scores, t, Pct(50)), Get(llm_scores, t, Pct(50)))]

\* 30+ messages analysed: the profile counts as complete
CompleteAt == 30

\* confidence reaches its cap at 50 messages
ConfidenceSpan == 50

\* mutant: the learning rate without its floor
AlphaNoFloor(message_count) == Frac(1, message_count + 1)

\* alpha = max(0.1, 1.0 / (message_count + 1)); message_count + 1 /= 0
Alpha(message_count) == FracMax(Frac(1, 10), Frac(1, message_count + 1))

\* 1.0 / (message_count + 1) raises ZeroDivisionError
UpdateRaises(message_count) == message_count + 1 = 0

\* mutant: the two weights swapped
BlendSwapped(alpha, old, new) ==
    RoundDiv(alpha.num * old + (alpha.den - alpha.num) * new, alpha.den)

\* (1 - alpha) * old + alpha * new
Blend(alpha, old, new) ==
    RoundDiv((alpha.den - alpha.num) * old + alpha.num * new, alpha.den)

\* mutant: the confidence without its cap
ConfidenceUncapped(message_count) == RoundDiv(message_count * Scale, ConfidenceSpan)

\* min(0.95, message_count / 50)
Confidence(message_count) ==
    Min(Pct(95), RoundDiv(message_count * Scale, ConfidenceSpan))

\* mutant: is_complete recomputed from the count on every update
CompleteAfterUpdateReset(was_complete, message_count) == message_count >= CompleteAt

\* if message_count >= 30: profile.is_complete = True
CompleteAfterUpdate(was_complete, message_count) ==
    IF message_count >= CompleteAt THEN TRUE ELSE was_complete

\* PersonalityAnalyzer.update_personality_profile, past the division
UpdatePersonalityProfile(profile, new_scores, message_count) ==
    LET alpha == Alpha(message_count)
    IN  [profile EXCEPT
            !.openness = Blend(alpha, @, Get(new_scores, "openness", Pct(50))),
            !.conscientiousness = Blend(alpha, @, Get(new_scores, "conscientiousness", Pct(50))),
            !.extraversion = Blend(alpha, @, Get(new_scores, "extraversion", Pct(50))),
            !.agreeableness = Blend(alpha, @, Get(new_scores, "agreeableness", Pct(50))),
            !.neuroticism = Blend(alpha, @, Get(new_scores, "neuroticism", Pct(50))),
            !.total_messages_analyzed = message_count,
            !.analysis_confidence = Confidence(message_count),
            !.is_complete = CompleteAfterUpdate(@, message_count)]

\* What detect_interests can come back with: [] (the call failed, or the reply
\* was no list, or an empty list), or a list of interests.
InterestOutcomes == {<<>>, <<"muzik", "Kitap">>}

\* PersonalityAnalyzer.detect_communication_style
DetectCommunicationStyle(messages) ==
    LET n == messages.user
    IN  IF n = 0 THEN "unknown"
        ELSE IF messages.chars > 100 * n /\ 10 * messages.questions > 3 * n THEN "expressive"
        ELSE IF messages.chars < 30 * n /\ 5 * messages.emojis < n THEN "direct"
        ELSE IF 2 * messages.emojis > n THEN "expressive"
        ELSE IF messages.chars > 80 * n THEN "diplomatic"
        ELSE "reserved"

-----------------------------------------------------------------------------
(* services/conversation_ai.py *)

\* d[k] = v on a dict
Put(d, k, v) == [x \in DOMAIN d \cup {k} |-> IF x = k THEN v ELSE d[x]]

\* del d[k]
Del(d, k) == [x \in DOMAIN d \ {k} |-> d[x]]

\* the messages list after appending one subject message
AppendUser(messages, message) ==
    [messages EXCEPT !.user = @ + 1,
                     !.chars = @ + message.chars,
                     !.emojis = @ + message.emojis,
                     !.questions = @ + message.questions]

\* the messages list after appending the AI's reply
AppendAi(messages) == [messages EXCEPT !.ai = @ + 1]

\* mutant: the count taken over all messages, the AI's included
UserMessageCountAll(messages) == messages.user + messages.ai

\* len([m for m in session.messages if not m.is_from_ai])
UserMessageCount(messages) == messages.user

\* mutant: the phase boundaries taken inclusively
CalculatePhaseInclusive(message_count) ==
    IF message_count <= 6 THEN 1
    ELSE IF message_count <= 12 THEN 2
    ELSE IF message_count <= 18 THEN 3
    ELSE IF message_count <= 24 THEN 4
    ELSE 5

\* ConversationAI._calculate_phase
CalculatePhase(message_count) ==
    IF message_count < 6 THEN 1
    ELSE IF message_count < 12 THEN 2
    ELSE IF message_count < 18 THEN 3
    ELSE IF message_count < 24 THEN 4
    ELSE 5

\* a completion test that asks for a confidence above 0.6
AnalysisDoneStrict(message_count, analysis_confidence) ==
    message_count >= CompleteAt /\ analysis_confidence > Pct(60)

\* message_count >= 30 and profile.analysis_confidence >= 0.6
AnalysisDone(message_count, analysis_confidence) ==
    message_count >= CompleteAt /\ analysis_confidence >= Pct(60)

\* what a matching call returns when it returns no MatchScore
NoMatch(kind) ==
    [ kind |-> kind, user_id_1 |-> "none", user_id_2 |-> "none", overall_score |-> 0,
      trait_compatibility |-> [t \in Traits |-> 0], interest_overlap |-> 0,
      communication_compatibility |-> 0, predicted_friendship_type |-> "none",
      match_reasons |-> <<>>, potential_challenges |-> <<>> ]

\* the last call on the pool returned no list (add_profile, remove_profile: None)
NoQuery == [user_id |-> "none", limit |-> 0, min_score |-> 0, matches |-> <<>>]

\* the calls that can be in flight at once
TaskIds == {"t1", "t2"}

\* a slot with no call in flight
Idle == [pc |-> "idle", user |-> "none", k |-> 0, message_count |-> 0]

\* no call in flight
NoTasks == [t \in TaskIds |-> Idle]

\* the history record of a handler that ran no profile update
NoCall ==
    [op |-> "none", user |-> "none", message_count |-> 0, alpha |-> Frac(0, 1),
     keyword_scores |-> NeutralScores, cls |-> "none", trait_scores |-> NeutralScores,
     before |-> PersonalityProfile("none"), enriched |-> FALSE, all_valid |-> TRUE,
     result |-> "none"]

\* a start_session that stores a new default profile on every call
StartSessionReset(u) ==
    /\ sessions_started < MaxSessions
    /\ sessions_started' = sessions_started + 1
    /\ user_profiles' = Put(user_profiles, u, PersonalityProfile(u))
    /\ active_sessions' = Put(active_sessions, u, ConversationSession(sessions_started + 1, u))
    /\ last' = [NoCall EXCEPT !.op = "start_session", !.user = u, !.result = "session"]
    /\ UNCHANGED <<enrich_calls, msgs_sent, update_calls, env, tasks, engine_vars>>

\* ConversationAI.start_session
StartSession(u) ==
    /\ sessions_started < MaxSessions
    /\ sessions_started' = sessions_started + 1
    /\ user_profiles' =
          IF u \notin DOMAIN user_profiles
          THEN Put(user_profiles, u, PersonalityProfile(u))
          ELSE user_profiles
    /\ active_sessions' = Put(active_sessions, u, ConversationSession(sessions_started + 1, u))
    /\ last' = [NoCall EXCEPT !.op = "start_session", !.user = u, !.result = "session"]
    /\ UNCHANGED <<enrich_calls, msgs_sent, update_calls, env, tasks, engine_vars>>

\* ConversationAI.process_message, run to its return without another call of
\* the same subject in between
ProcessMessage(u, message, cls) ==
    LET fresh == u \notin DOMAIN active_sessions
        profiles0 == IF u \notin DOMAIN user_profiles
                     THEN Put(user_profiles, u, PersonalityProfile(u))
                     ELSE user_profiles
        session0 == IF fresh THEN ConversationSession(sessions_started + 1, u)
                    ELSE active_sessions[u]
        messages1 == AppendUser(session0.messages, message)
        trait_scores == AnalyzeMessage(message, cls)
        message_count == UserMessageCount(messages1)
        profile1 == UpdatePersonalityProfile(profiles0[u], trait_scores, message_count)
        messages2 == AppendAi(messages1)
        done == AnalysisDone(message_count, profile1.analysis_confidence)
    IN  /\ fresh => sessions_started < MaxSessions
        /\ msgs_sent < MaxMsgs
        /\ msgs_sent' = msgs_sent + 1
        /\ UNCHANGED <<update_calls, env, tasks, engine_vars>>
        /\ ~UpdateRaises(message_count)
        /\ \E found \in (IF done THEN InterestOutcomes ELSE {<<>>}) :
              /\ user_profiles' =
                    Put(profiles0, u,
                        IF done
                        THEN [profile1 EXCEPT
                                !.interests = found,
                                !.communication_style = DetectCommunicationStyle(messages2),
                                !.is_complete = TRUE]
                        ELSE profile1)
              /\ active_sessions' =
                    Put(active_sessions, u,
                        [session0 EXCEPT
                            !.messages = messages2,
                            !.analysis_phase = CalculatePhase(message_count),
                            !.is_analysis_complete = IF done THEN TRUE ELSE @])
        /\ sessions_started' = IF fresh THEN sessions_started + 1 ELSE sessions_started
        /\ enrich_calls' = [enrich_calls EXCEPT ![u] = IF done THEN @ + 1 ELSE @]
        /\ last' = [ op |-> "process_message", user |-> u,
                     message_count |-> message_count,
                     alpha |-> Alpha(message_count),
                     keyword_scores |-> AnalyzeKeywords(message),
                     cls |-> cls.kind,
                     trait_scores |-> trait_scores,
                     before |-> profiles0[u],
                     enriched |-> done,
                     all_valid |-> TRUE,
                     result |-> "reply" ]

\* ConversationAI.end_session with an active session
EndSession(u) ==
    /\ u \in DOMAIN active_sessions
    /\ LET session == active_sessions[u]
           profile == user_profiles[u]
           enrich == profile.interests = <<>>
       IN  /\ \E found \in (IF enrich THEN InterestOutcomes ELSE {<<>>}) :
                user_profiles' =
                    IF enrich
                    THEN Put(user_profiles, u,
                             [profile EXCEPT
                                !.interests = found,
                                !.communication_style =
                                    DetectCommunicationStyle(session.messages)])
                    ELSE user_profiles
           /\ enrich_calls' = [enrich_calls EXCEPT ![u] = IF enrich THEN @ + 1 ELSE @]
           /\ last' = [NoCall EXCEPT !.op = "end_session", !.user = u,
                                     !.before = profile, !.enriched = enrich,
                                     !.result = "profile"]
    /\ active_sessions' = Del(active_sessions, u)
    /\ UNCHANGED <<sessions_started, msgs_sent, update_calls, env, tasks, engine_vars>>

\* ConversationAI.end_session without an active session: returns None
EndSessionNone(u) ==
    /\ u \notin DOMAIN active_sessions
    /\ last' = [NoCall EXCEPT !.op = "end_session", !.user = u, !.result = None]
    /\ UNCHANGED <<user_profiles, active_sessions, sessions_started, enrich_calls, msgs_sent,
                   update_calls, env, tasks, engine_vars>>

\* ConversationAI.__init__: both registries empty
Init ==
    /\ user_profiles = [u \in {} |-> PersonalityProfile(u)]
    /\ active_sessions = [u \in {} |-> ConversationSession(0, u)]
    /\ sessions_started = 0
    /\ last = NoCall
    /\ enrich_calls = [u \in Users |-> 0]
    /\ msgs_sent = 0
    /\ update_calls = 0
    /\ env \in [messages : MsgScripts, classifier : ClsScripts]
    /\ engine_profiles = <<>>
    /\ match_out = NoMatch("none")
    /\ best_out = NoQuery
    /\ tasks = NoTasks

\* the subject's next message of the session, answered as the run's environment has it
SendMessage(u) ==
    LET k == IF u \in DOMAIN active_sessions THEN active_sessions[u].messages.user + 1 ELSE 1
    IN  ProcessMessage(u, At(env.messages, k), At(env.classifier, k))

Next ==
    \/ \E u \in Users : StartSession(u)
    \/ \E u \in Users : SendMessage(u)
    \/ \E u \in Users : EndSession(u)
    \/ \E u \in Users : EndSessionNone(u)

Spec == Init /\ [][Next]_vars

-----------------------------------------------------------------------------
(* The profile updater on its own: update_personality_profile called directly
   on one subject's profile, with any evidence and any message count. *)

\* evidence analyze_message produces, and evidence a caller supplies itself:
\* the extremes of [0,1], a dict with keys missing, and values outside [0,1]
EvidenceInputs ==
    { AnalyzeMessage(MsgPlain, ClsOpen),
      AnalyzeMessage(MsgKeyword, ClsThrow),
      [t \in Traits |-> 0],
      [t \in Traits |-> Scale],
      [t \in {"extraversion"} |-> Pct(80)],
      [t \in Traits |-> IF t = "openness" THEN Pct(150) ELSE Pct(50)],
      [t \in Traits |-> IF t = "neuroticism" THEN -Pct(20) ELSE Pct(50)] }

CountInputs == {-2, -1, 0, 1, 9, 10, 30, 47, 48, 50}

\* the caller obligation of the updater: a count >= 0 and scores in [0,1]
ValidInput(new_scores, message_count) ==
    /\ message_count >= 0
    /\ \A t \in DOMAIN new_scores : new_scores[t] >= 0 /\ new_scores[t] <= Scale

\* await analyzer.update_personality_profile(profile, new_scores, message_count)
UpdateCall(u, new_scores, message_count) ==
    /\ update_calls < MaxUpdates
    /\ u \in DOMAIN user_profiles
    /\ update_calls' = update_calls + 1
    /\ user_profiles' =
          IF UpdateRaises(message_count)
          THEN user_profiles
          ELSE Put(user_profiles, u,
                   UpdatePersonalityProfile(user_profiles[u], new_scores, message_count))
    /\ last' = [ op |-> "update_personality_profile", user |-> u,
                 message_count |-> message_count,
                 alpha |-> IF UpdateRaises(message_count) THEN Frac(0, 1)
                           ELSE Alpha(message_count),
                 keyword_scores |-> NeutralScores,
                 cls |-> "none",
                 trait_scores |-> [t \in Traits |-> Get(new_scores, t, Pct(50))],
                 before |-> user_profiles[u],
                 enriched |-> FALSE,
                 all_valid |-> last.all_valid /\ ValidInput(new_scores, message_count),
                 result |-> IF UpdateRaises(message_count) THEN "ZeroDivisionError"
                            ELSE "profile" ]
    /\ UNCHANGED <<active_sessions, sessions_started, enrich_calls, msgs_sent, env, tasks, engine_vars>>

InitUpd ==
    /\ user_profiles = [u \in Users |-> PersonalityProfile(u)]
    /\ active_sessions = [u \in {} |-> ConversationSession(0, u)]
    /\ sessions_started = 0
    /\ last = NoCall
    /\ enrich_calls = [u \in Users |-> 0]
    /\ msgs_sent = 0
    /\ update_calls = 0
    /\ env = [messages |-> <<MsgPlain>>, classifier |-> <<ClsThrow>>]
    /\ engine_profiles = <<>>
    /\ match_out = NoMatch("none")
    /\ best_out = NoQuery
    /\ tasks = NoTasks

NextUpd ==
    \E u \in Users, new_scores \in EvidenceInputs, message_count \in CountInputs :
        UpdateCall(u, new_scores, message_count)

SpecUpd == InitUpd /\ [][NextUpd]_vars

-----------------------------------------------------------------------------
(* services/matching_engine.py and the pairwise route of api/routes.py.

   Comparisons are made on the decimal values.  Where two decimals meet a
   threshold exactly (an extraversion difference of exactly 0.5, two
   friendship types with exactly equal scores) the binary floats of the code
   may fall on either side; the profiles the matching runs start from
   (TraitInputs) stay clear of such ties, and on them the operators below
   return what the code returns, field by field. *)

\* the elements of a list, as set(...) takes them
SetOf(seq) == {seq[i] : i \in 1..Len(seq)}

\* a cut that keeps the last n elements
TakeLast(seq, n) == SubSeq(seq, Max(1, Len(seq) - n + 1), Len(seq))

\* seq[:n]
Take(seq, n) == SubSeq(seq, 1, Min(n, Len(seq)))

\* round(x, 3) of a value held in units of 1/Scale
Round3(x) == RoundDiv(RoundDiv(x * 1000, Scale) * Scale, 1000)

\* str.lower() on the interest names of the model
LowerCase ==
    [s \in {"muzik", "Muzik", "kitap", "Kitap", "spor"} |->
        CASE s = "Muzik" -> "muzik"
          [] s = "Kitap" -> "kitap"
          [] OTHER -> s]

Lower(s) == IF s \in DOMAIN LowerCase THEN LowerCase[s] ELSE s

\* COMPATIBILITY_RULES[trait]["type"]
COMPATIBILITY_RULES ==
    [t \in Traits |->
        CASE t = "extraversion" -> "balanced"
          [] t = "neuroticism" -> "low_both"
          [] OTHER -> "similar"]

\* a balanced rule whose plateau is 0.8
TraitScoreHighPlateau(rule_type, val1, val2) ==
    LET diff == Abs(val1 - val2)
    IN  IF rule_type = "balanced"
        THEN (IF diff < Pct(30) THEN Scale - diff
              ELSE IF diff < Pct(50) THEN Pct(80)
              ELSE Scale - diff)
        ELSE IF rule_type = "low_both" THEN Scale - RoundDiv(val1 + val2, 2)
        ELSE Scale - diff

\* a similar rule that takes the difference with its sign
TraitScoreSigned(rule_type, val1, val2) ==
    LET diff == Abs(val1 - val2)
        score ==
            CASE rule_type = "similar" -> Scale - (val1 - val2)
              [] rule_type = "complementary" -> diff
              [] rule_type = "balanced" ->
                    IF diff < Pct(30) THEN Scale - diff
                    ELSE IF diff < Pct(50) THEN Pct(70)
                    ELSE Pct(50) - (diff - Pct(50))
              [] rule_type = "low_both" -> Scale - RoundDiv(val1 + val2, 2)
              [] OTHER -> Pct(50)
    IN  Round3(Max(0, Min(Scale, score)))

\* the score of one trait pair in _calculate_trait_compatibility
TraitScore(rule_type, val1, val2) ==
    LET diff == Abs(val1 - val2)
        score ==
            CASE rule_type = "similar" -> Scale - diff
              [] rule_type = "complementary" -> diff
              [] rule_type = "balanced" ->
                    IF diff < Pct(30) THEN Scale - diff
                    ELSE IF diff < Pct(50) THEN Pct(70)
                    ELSE Pct(50) - (diff - Pct(50))
              [] rule_type = "low_both" -> Scale - RoundDiv(val1 + val2, 2)
              [] OTHER -> Pct(50)
    IN  Round3(Max(0, Min(Scale, score)))

\* MatchingEngine._calculate_trait_compatibility
CalculateTraitCompatibility(profile1, profile2) ==
    [t \in Traits |-> TraitScore(COMPATIBILITY_RULES[t], profile1[t], profile2[t])]

\* an overlap taken on the interest names as written, without lower()
CalculateInterestOverlapCaseSensitive(profile1, profile2) ==
    IF profile1.interests = <<>> \/ profile2.interests = <<>>
    THEN Frac(Pct(50), 1)
    ELSE LET set1 == SetOf(profile1.interests)
             set2 == SetOf(profile2.interests)
             intersection == Cardinality(set1 \cap set2)
             union == Cardinality(set1 \cup set2)
             jaccard == Frac(intersection * Scale, union)
             bonus == Frac(intersection * Scale + Pct(10) * union, union)
         IN  IF intersection >= 2
             THEN (IF FracLeq(bonus, Frac(Scale, 1)) THEN bonus ELSE Frac(Scale, 1))
             ELSE jaccard

\* MatchingEngine._calculate_interest_overlap, as an exact fraction of Scale units
CalculateInterestOverlap(profile1, profile2) ==
    IF profile1.interests = <<>> \/ profile2.interests = <<>>
    THEN Frac(Pct(50), 1)
    ELSE LET set1 == {Lower(x) : x \in SetOf(profile1.interests)}
             set2 == {Lower(x) : x \in SetOf(profile2.interests)}
             intersection == Cardinality(set1 \cap set2)
             union == Cardinality(set1 \cup set2)
             jaccard == Frac(intersection * Scale, union)
             bonus == Frac(intersection * Scale + Pct(10) * union, union)
         IN  IF intersection >= 2
             THEN (IF FracLeq(bonus, Frac(Scale, 1)) THEN bonus ELSE Frac(Scale, 1))
             ELSE jaccard

\* the float a fraction stands for, in units of 1/Scale
FracValue(f) == RoundDiv(f.num, f.den)

\* compatibility_matrix of _calculate_communication_compatibility
CompatibilityMatrix ==
    [key \in { <<"direct", "direct">>, <<"direct", "diplomatic">>,
               <<"direct", "expressive">>, <<"direct", "reserved">>,
               <<"diplomatic", "diplomatic">>, <<"diplomatic", "expressive">>,
               <<"diplomatic", "reserved">>, <<"expressive", "expressive">>,
               <<"expressive", "reserved">>, <<"reserved", "reserved">> } |->
        CASE key = <<"direct", "direct">> -> Pct(80)
          [] key = <<"direct", "diplomatic">> -> Pct(60)
          [] key = <<"direct", "expressive">> -> Pct(50)
          [] key = <<"direct", "reserved">> -> Pct(40)
          [] key = <<"diplomatic", "diplomatic">> -> Pct(90)
          [] key = <<"diplomatic", "expressive">> -> Pct(70)
          [] key = <<"diplomatic", "reserved">> -> Pct(60)
          [] key = <<"expressive", "expressive">> -> Pct(85)
          [] key = <<"expressive", "reserved">> -> Pct(40)
          [] OTHER -> Pct(70)]

\* a lookup of the style table under the given order of the pair only
CalculateCommunicationCompatibilityOneWay(profile1, profile2) ==
    LET key1 == <<profile1.communication_style, profile2.communication_style>>
    IN  IF profile1.communication_style = None \/ profile2.communication_style = None
        THEN Pct(50)
        ELSE IF key1 \in DOMAIN CompatibilityMatrix THEN CompatibilityMatrix[key1]
        ELSE Pct(50)

\* MatchingEngine._calculate_communication_compatibility
CalculateCommunicationCompatibility(profile1, profile2) ==
    LET style1 == profile1.communication_style
        style2 == profile2.communication_style
        key1 == <<style1, style2>>
        key2 == <<style2, style1>>
    IN  IF style1 = None \/ style2 = None THEN Pct(50)
        ELSE IF key1 \in DOMAIN CompatibilityMatrix THEN CompatibilityMatrix[key1]
        ELSE IF key2 \in DOMAIN CompatibilityMatrix THEN CompatibilityMatrix[key2]
        ELSE Pct(50)

\* type_scores of _predict_friendship_type, each times 20 so that the halves of
\* the averages and the tenths of the weights stay whole
TypeScores(profile1, profile2, trait_scores) ==
    LET o == profile1.openness + profile2.openness
        c == profile1.conscientiousness + profile2.conscientiousness
        e == profile1.extraversion + profile2.extraversion
        a == profile1.agreeableness + profile2.agreeableness
        n == profile1.neuroticism + profile2.neuroticism
    IN  [ deep |-> 3 * o + 4 * a + 6 * trait_scores.openness,
          activity_based |-> 4 * e + 3 * c + 3 * (2 * Scale - n),
          intellectual |-> 5 * o + 3 * c + 4 * trait_scores.openness,
          casual |-> 4 * a + 4 * (2 * Scale - n) + 2 * Scale ]

\* the order in which type_scores receives its keys
FriendshipTypes == <<"deep", "activity_based", "intellectual", "casual">>

\* a max() that keeps the last of the largest
PredictFriendshipTypeLast(profile1, profile2, trait_scores) ==
    LET type_scores == TypeScores(profile1, profile2, trait_scores)
        best == CHOOSE i \in 1..Len(FriendshipTypes) :
                    /\ \A j \in 1..Len(FriendshipTypes) :
                          type_scores[FriendshipTypes[j]] <= type_scores[FriendshipTypes[i]]
                    /\ \A j \in (i + 1)..Len(FriendshipTypes) :
                          type_scores[FriendshipTypes[j]] < type_scores[FriendshipTypes[i]]
    IN  FriendshipTypes[best]

\* MatchingEngine._predict_friendship_type: max() keeps the first of the largest
PredictFriendshipType(profile1, profile2, trait_scores) ==
    LET type_scores == TypeScores(profile1, profile2, trait_scores)
        best == CHOOSE i \in 1..Len(FriendshipTypes) :
                    /\ \A j \in 1..Len(FriendshipTypes) :
                          type_scores[FriendshipTypes[j]] <= type_scores[FriendshipTypes[i]]
                    /\ \A j \in 1..(i - 1) :
                          type_scores[FriendshipTypes[j]] < type_scores[FriendshipTypes[i]]
    IN  FriendshipTypes[best]

\* one list element if the condition holds
When(cond, x) == IF cond THEN <<x>> ELSE <<>>

\* the list reasons of _generate_match_reasons before it is cut; a reason is
\* held by what it is about
MatchReasonsList(profile1, profile2, trait_scores, interest_score) ==
    LET common == SetOf(profile1.interests) \cap SetOf(profile2.interests)
    IN  When(trait_scores.openness > Pct(70), "openness") \o
        When(trait_scores.agreeableness > Pct(70), "agreeableness") \o
        When(trait_scores.extraversion > Pct(70), "extraversion") \o
        When(trait_scores.conscientiousness > Pct(70), "conscientiousness") \o
        When(trait_scores.neuroticism > Pct(70), "neuroticism") \o
        When(~FracLeq(interest_score, Frac(Pct(50), 1)) /\ common # {}, "interests") \o
        When(profile1.communication_style = profile2.communication_style,
             "communication_style")

\* MatchingEngine._generate_match_reasons: reasons[:5]
GenerateMatchReasons(profile1, profile2, trait_scores, interest_score) ==
    Take(MatchReasonsList(profile1, profile2, trait_scores, interest_score), 5)

\* the list challenges of _identify_potential_challenges before it is cut
ChallengesList(profile1, profile2, trait_scores) ==
    LET diff == Abs(profile1.extraversion - profile2.extraversion)
    IN  When(trait_scores.extraversion < Pct(40) /\ diff > Pct(40),
             IF profile1.extraversion > profile2.extraversion
             THEN "extraversion_one_more_social"
             ELSE "extraversion_levels_differ") \o
        When(trait_scores.conscientiousness < Pct(40), "conscientiousness") \o
        When(trait_scores.neuroticism < Pct(40)
                /\ profile1.neuroticism + profile2.neuroticism > 2 * Pct(60),
             "neuroticism") \o
        When(profile1.communication_style = "direct"
                /\ profile2.communication_style = "reserved",
             "communication_style")

\* MatchingEngine._identify_potential_challenges: challenges[:3]
IdentifyPotentialChallenges(profile1, profile2, trait_scores) ==
    Take(ChallengesList(profile1, profile2, trait_scores), 3)

\* the weighted sum with the weights of interests and style exchanged
OverallScoreSwapped(trait_scores, interest_score, comm_score) ==
    LET total == trait_scores.openness + trait_scores.conscientiousness
                 + trait_scores.extraversion + trait_scores.agreeableness
                 + trait_scores.neuroticism
    IN  Round3(RoundDiv((total + 3 * comm_score) * interest_score.den
                            + 2 * interest_score.num,
                        10 * interest_score.den))

\* the weighted sum of calculate_match_score, rounded once:
\* mean(trait_scores) * 0.5 + interest_score * 0.3 + comm_score * 0.2
OverallScore(trait_scores, interest_score, comm_score) ==
    LET total == trait_scores.openness + trait_scores.conscientiousness
                 + trait_scores.extraversion + trait_scores.agreeableness
                 + trait_scores.neuroticism
    IN  Round3(RoundDiv((total + 2 * comm_score) * interest_score.den
                            + 3 * interest_score.num,
                        10 * interest_score.den))

\* MatchingEngine.calculate_match_score: the MatchScore it returns
CalculateMatchScore(profile1, profile2) ==
    LET trait_scores == CalculateTraitCompatibility(profile1, profile2)
        interest_score == CalculateInterestOverlap(profile1, profile2)
        comm_score == CalculateCommunicationCompatibility(profile1, profile2)
    IN  [ kind |-> "MatchScore",
          user_id_1 |-> profile1.user_id,
          user_id_2 |-> profile2.user_id,
          overall_score |-> OverallScore(trait_scores, interest_score, comm_score),
          trait_compatibility |-> trait_scores,
          interest_overlap |-> Round3(FracValue(interest_score)),
          communication_compatibility |-> Round3(comm_score),
          predicted_friendship_type |->
              PredictFriendshipType(profile1, profile2, trait_scores),
          match_reasons |-> GenerateMatchReasons(profile1, profile2, trait_scores,
                                                 interest_score),
          potential_challenges |->
              IdentifyPotentialChallenges(profile1, profile2, trait_scores) ]

\* GET /matches/{user_id}/{other_user_id}: routes.get_match_details, which hands
\* the two stored profiles to calculate_match_score
GetMatchDetails(user_id, other_user_id) ==
    /\ match_out' =
          IF user_id \notin DOMAIN user_profiles \/ other_user_id \notin DOMAIN user_profiles
          THEN NoMatch("HTTP_404")
          ELSE CalculateMatchScore(user_profiles[user_id], user_profiles[other_user_id])
    /\ last' = [NoCall EXCEPT !.op = "get_match_details", !.user = user_id,
                              !.result = other_user_id]
    /\ UNCHANGED <<user_profiles, active_sessions, sessions_started, enrich_calls,
                   msgs_sent, update_calls, env, tasks, engine_profiles, best_out>>

\* the subjects of the matching runs
MatchUsers == {"u1", "u2"}

\* trait vectors of stored profiles: the defaults, an outgoing and steady
\* subject, and a withdrawn and anxious one
TraitInputs ==
    { [t \in Traits |-> Pct(50)],
      [openness |-> Pct(90), conscientiousness |-> Pct(80), extraversion |-> Pct(90),
       agreeableness |-> Pct(80), neuroticism |-> Pct(10)],
      [openness |-> Pct(20), conscientiousness |-> Pct(10), extraversion |-> Pct(10),
       agreeableness |-> Pct(30), neuroticism |-> Pct(90)] }

StyleInputs == {None, "direct", "reserved"}

InterestInputs == {<<>>, <<"muzik", "Kitap">>, <<"Muzik", "kitap", "spor">>}

\* the profiles ConversationAI can hold for subject u (process_message,
\* end_session and set_profile put them there)
ProfileInputs(u) ==
    { [PersonalityProfile(u) EXCEPT
          !.openness = tv.openness,
          !.conscientiousness = tv.conscientiousness,
          !.extraversion = tv.extraversion,
          !.agreeableness = tv.agreeableness,
          !.neuroticism = tv.neuroticism,
          !.communication_style = style,
          !.interests = interests,
          !.is_complete = complete,
          !.analysis_confidence = IF complete THEN Pct(60) ELSE Pct(20),
          !.total_messages_analyzed = IF complete THEN CompleteAt ELSE 10] :
      tv \in TraitInputs, style \in StyleInputs, interests \in InterestInputs,
      complete \in BOOLEAN }

\* a ConversationAI holding a profile for one or for both subjects
InitMatch ==
    /\ \E held \in {{"u1"}, MatchUsers} :
          /\ user_profiles \in [held -> UNION {ProfileInputs(u) : u \in held}]
          /\ \A u \in held : user_profiles[u].user_id = u
    /\ active_sessions = [u \in {} |-> ConversationSession(0, u)]
    /\ sessions_started = 0
    /\ last = NoCall
    /\ enrich_calls = [u \in Users |-> 0]
    /\ msgs_sent = 0
    /\ update_calls = 0
    /\ env = [messages |-> <<MsgPlain>>, classifier |-> <<ClsThrow>>]
    /\ engine_profiles = <<>>
    /\ match_out = NoMatch("none")
    /\ best_out = NoQuery
    /\ tasks = NoTasks

NextMatch ==
    \E user_id \in MatchUsers, other_user_id \in MatchUsers :
        GetMatchDetails(user_id, other_user_id)

SpecMatch == InitMatch /\ [][NextMatch]_vars

-----------------------------------------------------------------------------
(* The matching pool: MatchingEngine.add_profile, remove_profile and
   find_best_matches.  A Python dict keeps its keys in insertion order and
   find_best_matches walks it in that order, so the pool is held as the list
   of its profiles in insertion order, one per user_id. *)

\* user_id in self.user_profiles
InPool(pool, user_id) == \E i \in 1..Len(pool) : pool[i].user_id = user_id

\* self.user_profiles[user_id]
PoolProfile(pool, user_id) ==
    pool[CHOOSE i \in 1..Len(pool) : pool[i].user_id = user_id]

\* self.user_profiles[profile.user_id] = profile: a key already there keeps its
\* place, a new key goes to the end
PoolPut(pool, profile) ==
    IF InPool(pool, profile.user_id)
    THEN [i \in 1..Len(pool) |->
             IF pool[i].user_id = profile.user_id THEN profile ELSE pool[i]]
    ELSE Append(pool, profile)

\* del self.user_profiles[user_id]
PoolDel(pool, user_id) == SelectSeq(pool, LAMBDA p : p.user_id # user_id)

\* a sort step that puts x ahead of the elements with an equal score
InsertByScoreUnstable(sorted, x) ==
    LET ahead == Cardinality({i \in 1..Len(sorted) :
                                 sorted[i].overall_score > x.overall_score})
    IN  SubSeq(sorted, 1, ahead) \o <<x>> \o SubSeq(sorted, ahead + 1, Len(sorted))

\* one step of list.sort(key=overall_score, reverse=True): x goes behind every
\* element whose score is at least its own, so equal scores keep their order
InsertByScore(sorted, x) ==
    LET ahead == Cardinality({i \in 1..Len(sorted) :
                                 sorted[i].overall_score >= x.overall_score})
    IN  SubSeq(sorted, 1, ahead) \o <<x>> \o SubSeq(sorted, ahead + 1, Len(sorted))

RECURSIVE SortByScore(_)
\* matches.sort(key=lambda x: x.overall_score, reverse=True)
SortByScore(matches) ==
    IF matches = <<>> THEN <<>>
    ELSE InsertByScore(SortByScore(SubSeq(matches, 1, Len(matches) - 1)),
                       matches[Len(matches)])

\* a slice that cuts nothing
SliceNone(seq, limit) == seq

\* matches[:limit]
Slice(seq, limit) ==
    IF limit >= 0 THEN Take(seq, limit)
    ELSE SubSeq(seq, 1, Max(0, Len(seq) + limit))

RECURSIVE CollectMatches(_, _, _, _)
\* the loop of find_best_matches over the first k pool entries
CollectMatches(pool, k, user_profile, min_score) ==
    IF k = 0 THEN <<>>
    ELSE LET before == CollectMatches(pool, k - 1, user_profile, min_score)
             other_profile == pool[k]
             match_score == CalculateMatchScore(user_profile, other_profile)
         IN  IF other_profile.user_id = user_profile.user_id THEN before
             ELSE IF ~other_profile.is_complete THEN before
             ELSE IF match_score.overall_score >= min_score
                  THEN Append(before, match_score)
                  ELSE before

\* find_best_matches without the test of the subject's own is_complete
FindBestMatchesListAnySubject(pool, user_id, limit, min_score) ==
    IF ~InPool(pool, user_id) THEN <<>>
    ELSE Slice(SortByScore(CollectMatches(pool, Len(pool),
                                          PoolProfile(pool, user_id), min_score)),
               limit)

\* MatchingEngine.find_best_matches: the list it returns
FindBestMatchesList(pool, user_id, limit, min_score) ==
    IF ~InPool(pool, user_id) THEN <<>>
    ELSE IF ~PoolProfile(pool, user_id).is_complete THEN <<>>
    ELSE Slice(SortByScore(CollectMatches(pool, Len(pool),
                                          PoolProfile(pool, user_id), min_score)),
               limit)

\* engine.add_profile(profile)
AddProfile(profile) ==
    /\ engine_profiles' = PoolPut(engine_profiles, profile)
    /\ best_out' = NoQuery
    /\ UNCHANGED <<user_profiles, active_sessions, sessions_started, last, enrich_calls,
                   msgs_sent, update_calls, env, tasks, match_out>>

\* engine.remove_profile(user_id)
RemoveProfile(user_id) ==
    /\ engine_profiles' =
          IF InPool(engine_profiles, user_id) THEN PoolDel(engine_profiles, user_id)
          ELSE engine_profiles
    /\ best_out' = NoQuery
    /\ UNCHANGED <<user_profiles, active_sessions, sessions_started, last, enrich_calls,
                   msgs_sent, update_calls, env, tasks, match_out>>

\* a scan that writes the lower-cased interest names back into the profiles
FindBestMatchesLowering(user_id, limit, min_score) ==
    /\ best_out' = [ user_id |-> user_id, limit |-> limit, min_score |-> min_score,
                     matches |-> FindBestMatchesList(engine_profiles, user_id,
                                                     limit, min_score) ]
    /\ engine_profiles' =
          [i \in 1..Len(engine_profiles) |->
              [engine_profiles[i] EXCEPT
                  !.interests = [k \in 1..Len(@) |-> Lower(@[k])]]]
    /\ UNCHANGED <<user_profiles, active_sessions, sessions_started, last, enrich_calls,
                   msgs_sent, update_calls, env, tasks, match_out>>

\* engine.find_best_matches(user_id, limit, min_score)
FindBestMatches(user_id, limit, min_score) ==
    /\ best_out' = [ user_id |-> user_id, limit |-> limit, min_score |-> min_score,
                     matches |-> FindBestMatchesList(engine_profiles, user_id,
                                                     limit, min_score) ]
    /\ UNCHANGED <<user_profiles, active_sessions, sessions_started, last, enrich_calls,
                   msgs_sent, update_calls, env, tasks, engine_profiles, match_out>>

\* the subjects of the pool runs
PoolUsers == {"u1", "u2", "u3"}

\* a complete profile as process_message leaves it at the 30th message
CompleteProfile(u, traits, style, interests) ==
    [ user_id |-> u,
      openness |-> traits.openness,
      conscientiousness |-> traits.conscientiousness,
      extraversion |-> traits.extraversion,
      agreeableness |-> traits.agreeableness,
      neuroticism |-> traits.neuroticism,
      communication_style |-> style,
      interests |-> interests,
      analysis_confidence |-> Pct(60),
      total_messages_analyzed |-> CompleteAt,
      is_complete |-> TRUE ]

\* the profiles handed to add_profile for subject u: one still incomplete, and
\* complete ones with default, outgoing and withdrawn traits
PoolInputs(u) ==
    { PersonalityProfile(u),
      CompleteProfile(u, [t \in Traits |-> Pct(50)], None, <<>>),
      CompleteProfile(u, [openness |-> Pct(90), conscientiousness |-> Pct(80),
                          extraversion |-> Pct(90), agreeableness |-> Pct(80),
                          neuroticism |-> Pct(10)],
                      "direct", <<"muzik", "Kitap">>),
      CompleteProfile(u, [openness |-> Pct(20), conscientiousness |-> Pct(10),
                          extraversion |-> Pct(10), agreeableness |-> Pct(30),
                          neuroticism |-> Pct(90)],
                      "reserved", <<"Muzik", "kitap", "spor">>) }

\* limit: the empty list, a cut, and no cut
LimitInputs == {0, 1, 2}

\* min_score: nothing filtered, a score a pair of the pool has exactly (0.59),
\* and one just above it
MinScoreInputs == {0, Pct(59), Pct(60)}

\* MatchingEngine.__init__ with a ConversationAI that serves no one
InitPool ==
    /\ user_profiles = [u \in {} |-> PersonalityProfile(u)]
    /\ active_sessions = [u \in {} |-> ConversationSession(0, u)]
    /\ sessions_started = 0
    /\ last = NoCall
    /\ enrich_calls = [u \in Users |-> 0]
    /\ msgs_sent = 0
    /\ update_calls = 0
    /\ env = [messages |-> <<MsgPlain>>, classifier |-> <<ClsThrow>>]
    /\ engine_profiles = <<>>
    /\ match_out = NoMatch("none")
    /\ best_out = NoQuery
    /\ tasks = NoTasks

NextPool ==
    \/ \E u \in PoolUsers : \E profile \in PoolInputs(u) : AddProfile(profile)
    \/ \E u \in PoolUsers : RemoveProfile(u)
    \/ \E u \in PoolUsers, limit \in LimitInputs, min_score \in MinScoreInputs :
          FindBestMatches(u, limit, min_score)

SpecPool == InitPool /\ [][NextPool]_vars

-----------------------------------------------------------------------------
(* Pairwise scoring over a wider range of profiles: trait vectors that make
   each friendship type win, every communication style, interest lists that
   differ in case, overlap in part or not at all. *)

\* trait vectors, in the order openness, conscientiousness, extraversion,
\* agreeableness, neuroticism
TraitVector(o, c, e, a, n) ==
    [openness |-> Pct(o), conscientiousness |-> Pct(c), extraversion |-> Pct(e),
     agreeableness |-> Pct(a), neuroticism |-> Pct(n)]

ScoreTraits ==
    { TraitVector(50, 50, 50, 50, 50),
      TraitVector(100, 100, 50, 100, 50),
      TraitVector(10, 90, 90, 10, 10),
      TraitVector(90, 90, 10, 10, 90),
      TraitVector(10, 10, 10, 90, 10),
      TraitVector(50, 10, 90, 50, 90) }

\* every value detect_communication_style returns, and the unset style
ScoreStyles == {None, "direct", "diplomatic", "expressive", "reserved", "unknown"}

ScoreInterests == {<<>>, <<"muzik", "Kitap">>, <<"Muzik", "kitap", "spor">>, <<"spor">>}

ScoreInputs(u) ==
    { CompleteProfile(u, traits, style, interests) :
        traits \in ScoreTraits, style \in ScoreStyles, interests \in ScoreInterests }

\* a ConversationAI holding a complete profile for each of the two subjects
InitScore ==
    /\ \E p1 \in ScoreInputs("u1"), p2 \in ScoreInputs("u2") :
          user_profiles = [u \in MatchUsers |-> IF u = "u1" THEN p1 ELSE p2]
    /\ active_sessions = [u \in {} |-> ConversationSession(0, u)]
    /\ sessions_started = 0
    /\ last = NoCall
    /\ enrich_calls = [u \in Users |-> 0]
    /\ msgs_sent = 0
    /\ update_calls = 0
    /\ env = [messages |-> <<MsgPlain>>, classifier |-> <<ClsThrow>>]
    /\ engine_profiles = <<>>
    /\ match_out = NoMatch("none")
    /\ best_out = NoQuery
    /\ tasks = NoTasks

NextScore ==
    \E user_id \in MatchUsers, other_user_id \in MatchUsers :
        GetMatchDetails(user_id, other_user_id)

SpecScore == InitScore /\ [][NextScore]_vars

-----------------------------------------------------------------------------
(* The trait rules over a grid of values: both subjects carry one value in
   all five traits, so that one scoring applies every rule to the same pair. *)

\* 0.0 to 1.0 in tenths; 0.7 is left out because the floats 0.7 and 0.2 differ
\* by a little less than 0.5 while the decimals differ by 0.5 exactly
TraitGrid == {Pct(k) : k \in {0, 10, 20, 30, 40, 50, 60, 80, 90, 100}}

InitTrait ==
    /\ \E val1 \in TraitGrid, val2 \in TraitGrid :
          user_profiles =
              [u \in MatchUsers |->
                  CompleteProfile(u, [t \in Traits |-> IF u = "u1" THEN val1 ELSE val2],
                                  None, <<>>)]
    /\ active_sessions = [u \in {} |-> ConversationSession(0, u)]
    /\ sessions_started = 0
    /\ last = NoCall
    /\ enrich_calls = [u \in Users |-> 0]
    /\ msgs_sent = 0
    /\ update_calls = 0
    /\ env = [messages |-> <<MsgPlain>>, classifier |-> <<ClsThrow>>]
    /\ engine_profiles = <<>>
    /\ match_out = NoMatch("none")
    /\ best_out = NoQuery
    /\ tasks = NoTasks

NextTrait ==
    \E user_id \in MatchUsers, other_user_id \in MatchUsers :
        GetMatchDetails(user_id, other_user_id)

SpecTrait == InitTrait /\ [][NextTrait]_vars

-----------------------------------------------------------------------------
(* Calls in flight together.  The handlers run as coroutines on one event
   loop: a call runs without interruption from one await of an external
   service to the next, and at such an await any other request may run.
   process_message awaits the classifier inside analyze_message, the reply
   service inside _generate_response and the interest detection inside
   detect_interests; start_session, update_personality_profile and
   detect_communication_style contain no await of their own.  The calls
   below are those of one subject's session, with the list route as another
   request that reads the profile. *)

\* settings.MAX_MATCHES_PER_USER
MAX_MATCHES_PER_USER == 10

\* the pool of the engine holds the profile objects of ConversationAI
\* themselves (get_matches hands engine.add_profile the stored object): a
\* profile changed in place is changed in the pool as well
Aliased(pool, profiles) ==
    [i \in 1..Len(pool) |->
        IF pool[i].user_id \in DOMAIN profiles THEN profiles[pool[i].user_id] ELSE pool[i]]

\* process_message from its entry to the await of the classifier: the session
\* is started if there is none, and the subject's message is appended
ProcessMessageAppend(t, u) ==
    LET fresh == u \notin DOMAIN active_sessions
        profiles0 == IF u \notin DOMAIN user_profiles
                     THEN Put(user_profiles, u, PersonalityProfile(u))
                     ELSE user_profiles
        session0 == IF fresh THEN ConversationSession(sessions_started + 1, u)
                    ELSE active_sessions[u]
        k == session0.messages.user + 1
        messages1 == AppendUser(session0.messages, At(env.messages, k))
    IN  /\ tasks[t].pc = "idle"
        /\ fresh => sessions_started < MaxSessions
        /\ msgs_sent < MaxMsgs
        /\ msgs_sent' = msgs_sent + 1
        /\ sessions_started' = IF fresh THEN sessions_started + 1 ELSE sessions_started
        /\ user_profiles' = profiles0
        /\ active_sessions' = Put(active_sessions, u, [session0 EXCEPT !.messages = messages1])
        /\ tasks' = [tasks EXCEPT ![t] = [pc |-> "analyze_message", user |-> u, k |-> k,
                                          message_count |-> 0]]
        /\ UNCHANGED <<last, enrich_calls, update_calls, env, engine_vars>>

\* process_message from the classifier's answer to the await of the reply
\* service: the messages are counted, the profile is updated in place and the
\* phase is set
ProcessMessageUpdate(t) ==
    LET u == tasks[t].user
        session == active_sessions[u]
        message == At(env.messages, tasks[t].k)
        cls == At(env.classifier, tasks[t].k)
        trait_scores == AnalyzeMessage(message, cls)
        message_count == UserMessageCount(session.messages)
        profile1 == UpdatePersonalityProfile(user_profiles[u], trait_scores, message_count)
    IN  /\ tasks[t].pc = "analyze_message"
        /\ ~UpdateRaises(message_count)
        /\ user_profiles' = Put(user_profiles, u, profile1)
        /\ active_sessions' =
              [active_sessions EXCEPT ![u].analysis_phase = CalculatePhase(message_count)]
        /\ tasks' = [tasks EXCEPT ![t].pc = "generate_response",
                                  ![t].message_count = message_count]
        /\ last' = [ op |-> "process_message", user |-> u,
                     message_count |-> message_count,
                     alpha |-> Alpha(message_count),
                     keyword_scores |-> AnalyzeKeywords(message),
                     cls |-> cls.kind,
                     trait_scores |-> trait_scores,
                     before |-> user_profiles[u],
                     enriched |-> FALSE,
                     all_valid |-> TRUE,
                     result |-> "awaiting" ]
        /\ engine_profiles' = Aliased(engine_profiles, user_profiles')
        /\ UNCHANGED <<sessions_started, enrich_calls, msgs_sent, update_calls, env,
                       match_out, best_out>>

\* process_message from the reply to its return or, when the analysis is
\* done, to the await of the interest detection
ProcessMessageReply(t) ==
    LET u == tasks[t].user
        session == active_sessions[u]
        done == AnalysisDone(tasks[t].message_count, user_profiles[u].analysis_confidence)
    IN  /\ tasks[t].pc = "generate_response"
        /\ active_sessions' =
              [active_sessions EXCEPT
                  ![u].messages = AppendAi(session.messages),
                  ![u].is_analysis_complete = IF done THEN TRUE ELSE @]
        /\ tasks' = [tasks EXCEPT ![t] = IF done THEN [@ EXCEPT !.pc = "detect_interests"]
                                          ELSE Idle]
        /\ enrich_calls' = [enrich_calls EXCEPT ![u] = IF done THEN @ + 1 ELSE @]
        /\ UNCHANGED <<user_profiles, sessions_started, last, msgs_sent, update_calls, env,
                       engine_vars>>

\* process_message from the answer of the interest detection to its return:
\* interests, communication style and is_complete are written
ProcessMessageEnrich(t) ==
    LET u == tasks[t].user
        session == active_sessions[u]
    IN  /\ tasks[t].pc = "detect_interests"
        /\ \E found \in InterestOutcomes :
              user_profiles' =
                  [user_profiles EXCEPT
                      ![u].interests = found,
                      ![u].communication_style = DetectCommunicationStyle(session.messages),
                      ![u].is_complete = TRUE]
        /\ tasks' = [tasks EXCEPT ![t] = Idle]
        /\ engine_profiles' = Aliased(engine_profiles, user_profiles')
        /\ UNCHANGED <<active_sessions, sessions_started, last, enrich_calls, msgs_sent,
                       update_calls, env, match_out, best_out>>

\* GET /matches/{user_id}: routes.get_matches, which answers 404 without a
\* profile, 400 for a profile that is not complete, and otherwise puts the
\* profile into the pool and returns its best matches
GetMatches(user_id, limit, min_score) ==
    LET known == user_id \in DOMAIN user_profiles
        accepted == known /\ user_profiles[user_id].is_complete
        pool == IF accepted THEN PoolPut(engine_profiles, user_profiles[user_id])
                ELSE engine_profiles
    IN  /\ engine_profiles' = pool
        /\ best_out' =
              IF accepted
              THEN [ user_id |-> user_id, limit |-> Min(limit, MAX_MATCHES_PER_USER),
                     min_score |-> min_score,
                     matches |-> FindBestMatchesList(pool, user_id,
                                                     Min(limit, MAX_MATCHES_PER_USER),
                                                     min_score) ]
              ELSE NoQuery
        /\ UNCHANGED <<user_profiles, active_sessions, sessions_started, last, enrich_calls,
                       msgs_sent, update_calls, env, tasks, match_out>>

NextConc ==
    \/ \E t \in TaskIds, u \in Users : ProcessMessageAppend(t, u)
    \/ \E t \in TaskIds : ProcessMessageUpdate(t)
    \/ \E t \in TaskIds : ProcessMessageReply(t)
    \/ \E t \in TaskIds : ProcessMessageEnrich(t)
    \/ \E u \in Users : GetMatches(u, MAX_MATCHES_PER_USER, Pct(50))

\* ConversationAI.__init__ and MatchingEngine.__init__, for a subject who
\* writes plain or keyword messages to a classifier that is down or healthy
InitConc ==
    /\ user_profiles = [u \in {} |-> PersonalityProfile(u)]
    /\ active_sessions = [u \in {} |-> ConversationSession(0, u)]
    /\ sessions_started = 0
    /\ last = NoCall
    /\ enrich_calls = [u \in Users |-> 0]
    /\ msgs_sent = 0
    /\ update_calls = 0
    /\ env \in { [messages |-> <<MsgPlain>>, classifier |-> <<ClsThrow>>],
                 [messages |-> <<MsgKeyword>>, classifier |-> <<ClsOpen>>] }
    /\ engine_profiles = <<>>
    /\ match_out = NoMatch("none")
    /\ best_out = NoQuery
    /\ tasks = NoTasks

SpecConc == InitConc /\ [][NextConc]_vars

-----------------------------------------------------------------------------
(* Properties of the conversation tracker and the profile updater *)

\* the profile of the subject the last handler served
LastProfile == user_profiles[last.user]

\* C1: once a subject's profile has is_complete = true, no start_session,
\* process_message or end_session (and no profile update they drive, whatever
\* its message_count) sets it back to false.
C1_CompleteIsMonotonic ==
    [][\A u \in DOMAIN user_profiles :
          user_profiles[u].is_complete =>
              u \in DOMAIN user_profiles' /\ user_profiles'[u].is_complete]_vars

\* C1 witness: a complete profile went through an update with a message_count
\* below 30 (a message of a later session) and is still complete.
C1_Witness ==
    /\ last.op = "process_message"
    /\ last.before.is_complete
    /\ last.message_count < 30
    /\ LastProfile.is_complete
    /\ LastProfile.total_messages_analyzed = last.message_count

\* C2: a session's is_analysis_complete is true only with at least 30 subject
\* messages and a confidence of at least 0.6; it is set only by a
\* process_message that saw both, it is set by every process_message that sees
\* both, and once set it stays set for as long as the session is the active one.
C2_AnalysisCompleteOnlyAtThreshold ==
    /\ [](\A u \in DOMAIN active_sessions :
             active_sessions[u].is_analysis_complete =>
                 /\ active_sessions[u].messages.user >= 30
                 /\ user_profiles[u].analysis_confidence >= Pct(60))
    /\ [][\A u \in DOMAIN active_sessions' :
             LET after == active_sessions'[u]
                 was_set == /\ u \in DOMAIN active_sessions
                            /\ active_sessions[u].session_id = after.session_id
                            /\ active_sessions[u].is_analysis_complete
                 saw_both == /\ last'.op = "process_message"
                             /\ last'.user = u
                             /\ last'.message_count >= 30
                             /\ user_profiles'[u].analysis_confidence >= Pct(60)
             IN  /\ was_set => after.is_analysis_complete
                 /\ (after.is_analysis_complete /\ ~was_set) => saw_both
                 /\ saw_both => after.is_analysis_complete]_vars

\* C2 witness: a session that became complete has taken a further message and
\* is still complete.
C2_Witness ==
    \E u \in DOMAIN active_sessions :
        /\ active_sessions[u].is_analysis_complete
        /\ active_sessions[u].messages.user = 31
        /\ last.op = "process_message"

\* C3: the completion-time enrichment runs once, at the process_message in which
\* the session becomes complete: once a session is complete, no later
\* process_message of that session and no end_session runs it again.
C3_EnrichmentRunsOnce ==
    [][\A u \in DOMAIN active_sessions :
          active_sessions[u].is_analysis_complete =>
              enrich_calls'[u] = enrich_calls[u]]_vars

\* C4: a session starts at phase 1 and not complete; with n subject messages in
\* the session its phase is 1 for n<6, 2 for n<12, 3 for n<18, 4 for n<24 and
\* 5 from there on, so it is in 1..5 and never decreases within a session.
C4_PhaseIsStepOfCount ==
    /\ [](\A u \in DOMAIN active_sessions :
             LET n == active_sessions[u].messages.user
                 phase == active_sessions[u].analysis_phase
             IN  /\ phase \in 1..5
                 /\ phase = 1 + Cardinality({b \in {6, 12, 18, 24} : n >= b})
                 /\ n = 0 => phase = 1 /\ ~active_sessions[u].is_analysis_complete)
    /\ [][\A u \in DOMAIN active_sessions \cap DOMAIN active_sessions' :
             active_sessions[u].session_id = active_sessions'[u].session_id =>
                 active_sessions'[u].analysis_phase >= active_sessions[u].analysis_phase]_vars

\* C4 witness: a session that has just moved into phase 5 with its 24th message.
C4_Witness ==
    \E u \in DOMAIN active_sessions :
        /\ active_sessions[u].messages.user = 24
        /\ active_sessions[u].analysis_phase = 5
        /\ last.op = "process_message"

\* C5: from a default profile, after updates whose evidence is in [0,1] and
\* whose message_count is >= 0, the five trait scores and the confidence are in
\* [0,1]; the confidence is min(0.95, message_count/50), never above 0.95, and
\* a call with a count at least as large as the previous call's yields a
\* confidence at least as large.
C5_ScoresStayInRange ==
    (last.op = "update_personality_profile" /\ last.all_valid) =>
        LET p == LastProfile
            mc == last.message_count
        IN  /\ last.result = "profile"
            /\ \A t \in Traits : p[t] >= 0 /\ p[t] <= Scale
            /\ p.analysis_confidence >= 0
            /\ p.analysis_confidence <= Pct(95)
            /\ IF mc * 100 <= 95 * 50
               THEN p.analysis_confidence * 50 = mc * Scale
               ELSE p.analysis_confidence = Pct(95)
            /\ last.before.total_messages_analyzed <= mc =>
                   last.before.analysis_confidence <= p.analysis_confidence

\* C5 witness: two valid updates have run, the second with a count past the cap
\* and with evidence at the upper end of [0,1].
C5_Witness ==
    /\ last.op = "update_personality_profile"
    /\ last.all_valid
    /\ update_calls = 2
    /\ last.message_count = 48
    /\ LastProfile.analysis_confidence = Pct(95)
    /\ LastProfile.openness = Scale

\* C6: every update sets each trait to (1-alpha)*old + alpha*evidence with
\* alpha = max(0.1, 1/(message_count+1)); alpha is never below 0.1 for a count
\* >= 0; process_message always passes a count >= 1, so its alpha is in
\* [0.1, 0.5]: 0.5 on the first message of a session, 0.1 from the 9th on.
C6_LearningRate ==
    /\ \A mc \in 0..(MaxMsgs + 20) : FracLeq(Frac(1, 10), Alpha(mc))
    /\ last.op = "process_message" =>
          LET mc == last.message_count
              a == last.alpha
          IN  /\ mc >= 1
              /\ mc = active_sessions[last.user].messages.user
              /\ IF mc + 1 <= 10 THEN a.num * (mc + 1) = a.den ELSE a.num * 10 = a.den
              /\ FracLeq(Frac(1, 10), a) /\ FracLeq(a, Frac(1, 2))
              /\ mc = 1 => a.num * 2 = a.den
              /\ mc >= 9 => a.num * 10 = a.den
              /\ \A t \in Traits :
                    2 * Abs(a.den * LastProfile[t]
                            - ((a.den - a.num) * last.before[t] + a.num * last.trait_scores[t]))
                        <= a.den

\* C6 witness: a 9th or later message has moved a trait with alpha = 0.1.
C6_Witness ==
    /\ last.op = "process_message"
    /\ last.message_count >= 9
    /\ last.alpha = Frac(1, 10)
    /\ LastProfile.openness # last.before.openness

\* the update of the scenario of C7: a default profile, message_count = 30, a
\* neutral lexicon vector and a classifier vector of openness 0.9, else 0.5
C7_Scenario ==
    /\ last.op = "update_personality_profile"
    /\ last.before = PersonalityProfile(last.user)
    /\ last.message_count = 30
    /\ last.trait_scores = AnalyzeMessage(MsgPlain, ClsOpen)

\* C7 as claimed: in that scenario the combined openness is 0.78, alpha is
\* 1/31, the resulting openness is 0.5 + (1/31)*(0.78-0.5), the confidence is
\* exactly 0.6 and is_complete is true.
C7_AsClaimed ==
    C7_Scenario =>
        /\ last.trait_scores["openness"] = Pct(78)
        /\ last.alpha.num * 31 = last.alpha.den
        /\ LastProfile.openness = Pct(50) + RoundDiv(Pct(78) - Pct(50), 31)
        /\ LastProfile.analysis_confidence = Pct(60)
        /\ LastProfile.is_complete

\* C7 as amended: in that scenario the combined openness is 0.78, alpha is
\* max(0.1, 1/31) = 0.1, the resulting openness is 0.5 + 0.1*(0.78-0.5) = 0.528,
\* the confidence is exactly 0.6 and is_complete is true.
C7_FloorApplies ==
    C7_Scenario =>
        /\ last.trait_scores["openness"] = Pct(78)
        /\ last.alpha.num * 10 = last.alpha.den
        /\ 1000 * LastProfile.openness = 528 * Scale
        /\ \A t \in Traits \ {"openness"} : LastProfile[t] = Pct(50)
        /\ LastProfile.analysis_confidence = Pct(60)
        /\ LastProfile.is_complete

\* C7 witness: the scenario's update has run.
C7_Witness == C7_Scenario /\ LastProfile.total_messages_analyzed = 30

\* C8: when the classifier call throws or returns unparsable data,
\* process_message still returns: the evidence per trait is 0.3*lexicon + 0.35,
\* and the message count, the confidence, the phase and the completion check
\* are those of any other message; with the classifier failing on every message
\* the 30th message sets is_complete and is_analysis_complete.
C8_ClassifierFailureIsAbsorbed ==
    (last.op = "process_message" /\ last.cls \in {"throw", "unparsable"}) =>
        LET session == active_sessions[last.user]
            n == session.messages.user
            p == LastProfile
        IN  /\ last.result = "reply"
            /\ \A t \in Traits :
                  10 * last.trait_scores[t] = 3 * last.keyword_scores[t] + 10 * Pct(35)
            /\ n = last.message_count
            /\ session.messages.ai = n
            /\ p.total_messages_analyzed = n
            /\ IF n <= 47 THEN p.analysis_confidence * 50 = n * Scale
               ELSE p.analysis_confidence = Pct(95)
            /\ session.analysis_phase = 1 + Cardinality({b \in {6, 12, 18, 24} : n >= b})
            /\ n >= 30 => p.is_complete /\ session.is_analysis_complete
            /\ n < 30 => ~session.is_analysis_complete

\* C8 witness: the classifier has thrown on every message of a subject whose
\* messages carry lexicon hits, and the 30th message completed the analysis.
C8_Witness ==
    /\ last.op = "process_message"
    /\ last.cls = "throw"
    /\ env.classifier = <<ClsThrow>>
    /\ env.messages = <<MsgKeyword>>
    /\ sessions_started = 1
    /\ last.message_count = 30
    /\ last.keyword_scores["openness"] = Pct(75)
    /\ LastProfile.is_complete
    /\ active_sessions[last.user].is_analysis_complete

\* C9: update_personality_profile rejects a negative message_count or an
\* evidence value outside [0,1] with an error and leaves the profile as it was.
C9_InvalidInputRejected ==
    ( /\ last.op = "update_personality_profile"
      /\ \/ last.message_count < 0
         \/ \E t \in Traits : last.trait_scores[t] < 0 \/ last.trait_scores[t] > Scale ) =>
        /\ last.result # "profile"
        /\ LastProfile = last.before

-----------------------------------------------------------------------------
(* Properties of the matching engine *)

\* the last call was pairwise scoring of two held profiles
ScoredPair ==
    /\ last.op = "get_match_details"
    /\ last.user \in DOMAIN user_profiles
    /\ last.result \in DOMAIN user_profiles

\* C10: direct pairwise scoring of two profiles of which at least one has
\* is_complete = false returns an explicit error and never a MatchScore.
C10_IncompleteProfileIsRefused ==
    (ScoredPair /\ (~user_profiles[last.user].is_complete
                       \/ ~user_profiles[last.result].is_complete))
        => match_out.kind # "MatchScore"

\* the two profiles of the pair scored last, in the order they were given
First == user_profiles[last.user]
Second == user_profiles[last.result]

\* C14: calculate_match_score is symmetric under argument order in its scores
\* and label: score(A,B) and score(B,A) have equal overall_score, equal
\* trait_compatibility for each trait, equal interest_overlap, equal
\* communication_compatibility (0.5 when either style is unset) and equal
\* predicted_friendship_type.
C14_ScoresAreSymmetric ==
    ScoredPair =>
        LET back == CalculateMatchScore(Second, First)
        IN  /\ match_out.kind = "MatchScore" /\ back.kind = "MatchScore"
            /\ match_out.overall_score = back.overall_score
            /\ \A t \in Traits :
                  match_out.trait_compatibility[t] = back.trait_compatibility[t]
            /\ match_out.interest_overlap = back.interest_overlap
            /\ match_out.communication_compatibility = back.communication_compatibility
            /\ match_out.predicted_friendship_type = back.predicted_friendship_type
            /\ (First.communication_style = None \/ Second.communication_style = None) =>
                  match_out.communication_compatibility = Pct(50)

\* C14 witness: a reserved subject was scored against a direct one (the style
\* table holds the pair only as direct/reserved), with other traits and other
\* interests, and the style compatibility is that of the table.
C14_Witness ==
    /\ ScoredPair
    /\ First.communication_style = "reserved"
    /\ Second.communication_style = "direct"
    /\ First.openness # Second.openness
    /\ First.interests # Second.interests
    /\ First.interests # <<>> /\ Second.interests # <<>>
    /\ match_out.communication_compatibility = Pct(40)

\* C15: the communication-style challenge is in potential_challenges whenever
\* one profile's style is direct and the other's is reserved, in either
\* argument order, provided fewer than three earlier challenges apply.
C15_StyleChallengeInEitherOrder ==
    ( /\ ScoredPair
      /\ {First.communication_style, Second.communication_style} = {"direct", "reserved"}
      /\ Cardinality({i \in 1..Len(match_out.potential_challenges) :
                         match_out.potential_challenges[i] # "communication_style"}) < 3 ) =>
        "communication_style" \in SetOf(match_out.potential_challenges)

\* C16: short of truncation, match_reasons has a reason for a trait exactly
\* when that trait's compatibility exceeds 0.7, an interests reason exactly when
\* interest_overlap exceeds 0.5, and a communication-style reason exactly when
\* communication_compatibility exceeds 0.7 (so none when a style is unset and
\* none for reserved/reserved).
C16_ReasonsFollowTheScores ==
    (ScoredPair /\ Len(match_out.match_reasons) < 5) =>
        LET reasons == SetOf(match_out.match_reasons)
        IN  /\ \A t \in Traits :
                  t \in reasons <=> match_out.trait_compatibility[t] > Pct(70)
            /\ "interests" \in reasons <=> match_out.interest_overlap > Pct(50)
            /\ "communication_style" \in reasons <=>
                  match_out.communication_compatibility > Pct(70)

\* the priority of a reason and of a challenge: 1 is kept first
ReasonRank(reason) ==
    CASE reason = "openness" -> 1
      [] reason = "agreeableness" -> 2
      [] reason = "extraversion" -> 3
      [] reason = "conscientiousness" -> 4
      [] reason = "neuroticism" -> 5
      [] reason = "interests" -> 6
      [] OTHER -> 7

ChallengeRank(challenge) ==
    CASE challenge \in {"extraversion_one_more_social", "extraversion_levels_differ"} -> 1
      [] challenge = "conscientiousness" -> 2
      [] challenge = "neuroticism" -> 3
      [] OTHER -> 4

\* kept is what a cut to at most limit entries leaves of the applicable
\* entries: in priority order, and an applicable entry is missing only when
\* limit entries of higher priority are kept
KeptByPriority(kept, applicable, limit, rank) ==
    /\ Len(kept) <= limit
    /\ SetOf(kept) \subseteq SetOf(applicable)
    /\ \A i \in 1..Len(kept) : \A j \in (i + 1)..Len(kept) : rank[kept[i]] < rank[kept[j]]
    /\ \A x \in SetOf(applicable) \ SetOf(kept) :
          /\ Len(kept) = limit
          /\ \A i \in 1..Len(kept) : rank[kept[i]] < rank[x]

\* the reasons and the challenges that apply to the pair scored last
ApplicableReasons ==
    MatchReasonsList(First, Second, match_out.trait_compatibility,
                     CalculateInterestOverlap(First, Second))

ApplicableChallenges == ChallengesList(First, Second, match_out.trait_compatibility)

\* C17: match_reasons has at most 5 entries and potential_challenges at most 3;
\* the entries kept are the first in the fixed priority order (reasons:
\* openness, agreeableness, extraversion, conscientiousness, neuroticism,
\* interests, communication style; challenges: extraversion, conscientiousness,
\* neuroticism, communication style), so a lower-priority entry is dropped only
\* when the limit is filled by higher-priority ones.
C17_ListsAreCutInPriorityOrder ==
    ScoredPair =>
        /\ KeptByPriority(match_out.match_reasons, ApplicableReasons, 5,
                          [reason \in SetOf(ApplicableReasons) |-> ReasonRank(reason)])
        /\ KeptByPriority(match_out.potential_challenges, ApplicableChallenges, 3,
                          [challenge \in SetOf(ApplicableChallenges) |->
                              ChallengeRank(challenge)])

\* C17 witness: six reasons apply to the pair (four traits, interests, style);
\* five are kept and the style reason, the last in priority, is dropped.
C17_Witness ==
    /\ ScoredPair
    /\ Len(ApplicableReasons) = 6
    /\ "communication_style" \in SetOf(ApplicableReasons)
    /\ match_out.match_reasons =
          <<"openness", "agreeableness", "extraversion", "conscientiousness", "interests">>

\* the other cut of C17 happens as well: four challenges apply and the style
\* challenge is dropped
FourChallengesCutToThree ==
    /\ ScoredPair
    /\ Len(ApplicableChallenges) = 4
    /\ match_out.potential_challenges =
          <<"extraversion_levels_differ", "conscientiousness", "neuroticism">>

\* C18: predicted_friendship_type is the label whose score (deep: 0.3 avg
\* openness + 0.4 avg agreeableness + 0.3 openness compatibility; activity_based:
\* 0.4 avg extraversion + 0.3 avg conscientiousness + 0.3 (1 - avg neuroticism);
\* intellectual: 0.5 avg openness + 0.3 avg conscientiousness + 0.2 openness
\* compatibility; casual: 0.4 avg agreeableness + 0.4 (1 - avg neuroticism) +
\* 0.1) is maximal, the earliest of deep, activity_based, intellectual, casual
\* among equals; for two all-0.5 profiles the scores are 0.65, 0.5, 0.6, 0.5
\* and the label is deep.
C18_FriendshipTypeIsFirstMaximum ==
    ScoredPair =>
        LET \* twenty times each score: the averages are halves, the weights tenths
            o == First.openness + Second.openness
            c == First.conscientiousness + Second.conscientiousness
            e == First.extraversion + Second.extraversion
            a == First.agreeableness + Second.agreeableness
            n == First.neuroticism + Second.neuroticism
            tc == match_out.trait_compatibility.openness
            score == [ deep |-> 3 * o + 4 * a + 6 * tc,
                       activity_based |-> 4 * e + 3 * c + 3 * (2 * Scale - n),
                       intellectual |-> 5 * o + 3 * c + 4 * tc,
                       casual |-> 4 * a + 4 * (2 * Scale - n) + 2 * Scale ]
            order == <<"deep", "activity_based", "intellectual", "casual">>
            won == match_out.predicted_friendship_type
        IN  /\ won \in DOMAIN score
            /\ \A k \in 1..4 : score[order[k]] <= score[won]
            /\ \A k \in 1..4 :
                  score[order[k]] = score[won] =>
                      \E w \in 1..k : order[w] = won
            /\ (\A t \in Traits : First[t] = Pct(50) /\ Second[t] = Pct(50)) =>
                  /\ score.deep = 20 * Pct(65)
                  /\ score.activity_based = 20 * Pct(50)
                  /\ score.intellectual = 20 * Pct(60)
                  /\ score.casual = 20 * Pct(50)
                  /\ won = "deep"

\* C18 witness: deep and intellectual tie for the maximum (both 1.0) and the
\* label is deep.
C18_Witness ==
    /\ ScoredPair
    /\ \A u \in {last.user, last.result} :
          /\ user_profiles[u].openness = Scale
          /\ user_profiles[u].conscientiousness = Scale
          /\ user_profiles[u].agreeableness = Scale
    /\ match_out.predicted_friendship_type = "deep"

\* C19: overall_score is mean(trait_compatibility)*0.5 + interest_overlap*0.3 +
\* communication_compatibility*0.2 (to the third decimal the scores are rounded
\* to) and lies in [0,1]; for two profiles with all traits 0.5, no interests
\* and no style, trait_compatibility is 1.0 for openness, conscientiousness,
\* extraversion and agreeableness and 0.5 for neuroticism, interest_overlap and
\* communication_compatibility are 0.5 and overall_score is exactly 0.7.
C19_OverallScoreIsTheWeightedSum ==
    ScoredPair =>
        LET tc == match_out.trait_compatibility
            total == tc.openness + tc.conscientiousness + tc.extraversion
                     + tc.agreeableness + tc.neuroticism
            \* ten times the weighted sum of the scores as returned
            sum10 == total + 3 * match_out.interest_overlap
                     + 2 * match_out.communication_compatibility
        IN  /\ match_out.overall_score >= 0 /\ match_out.overall_score <= Scale
            /\ Abs(10 * match_out.overall_score - sum10) <= 6
            /\ ( /\ \A t \in Traits : First[t] = Pct(50) /\ Second[t] = Pct(50)
                 /\ First.interests = <<>> /\ Second.interests = <<>>
                 /\ First.communication_style = None
                 /\ Second.communication_style = None ) =>
                  /\ \A t \in Traits \ {"neuroticism"} : tc[t] = Scale
                  /\ tc.neuroticism = Pct(50)
                  /\ match_out.interest_overlap = Pct(50)
                  /\ match_out.communication_compatibility = Pct(50)
                  /\ match_out.overall_score = Pct(70)

\* C19 witness: the all-0.5 pair without interests and styles has been scored.
C19_Witness ==
    /\ ScoredPair
    /\ last.user # last.result
    /\ \A t \in Traits : First[t] = Pct(50) /\ Second[t] = Pct(50)
    /\ First.interests = <<>> /\ Second.interests = <<>>
    /\ First.communication_style = None /\ Second.communication_style = None
    /\ match_out.overall_score = Pct(70)

\* the balanced rule as a function of the difference
Balanced(diff) ==
    IF diff < Pct(30) THEN Scale - diff
    ELSE IF diff < Pct(50) THEN Pct(70)
    ELSE Pct(50) - (diff - Pct(50))

Answered == best_out.user_id # "none"

\* a list is in descending order of overall_score
Descending(matches) ==
    \A i \in 1..Len(matches) : \A j \in (i + 1)..Len(matches) :
        matches[i].overall_score >= matches[j].overall_score

\* C11: for every pool, subject, limit >= 0 and min_score, the list returned by
\* find_best_matches has no entry whose other party is the querying subject, no
\* entry for a profile that is not complete, at most limit entries, and its
\* overall_score values in non-increasing order.
C11_BestMatchesAreWellFormed ==
    (Answered /\ best_out.limit >= 0) =>
        LET matches == best_out.matches
        IN  /\ Len(matches) <= best_out.limit
            /\ Descending(matches)
            /\ \A i \in 1..Len(matches) :
                  /\ matches[i].kind = "MatchScore"
                  /\ matches[i].user_id_1 = best_out.user_id
                  /\ matches[i].user_id_2 # best_out.user_id
                  /\ InPool(engine_profiles, matches[i].user_id_2)
                  /\ PoolProfile(engine_profiles, matches[i].user_id_2).is_complete

\* C11 witness: a query with limit 2 against a pool of three complete profiles
\* returned both others, the later-inserted one first because it scores higher.
C11_Witness ==
    /\ Len(engine_profiles) = 3
    /\ best_out.user_id = engine_profiles[1].user_id
    /\ best_out.limit = 2
    /\ Len(best_out.matches) = 2
    /\ best_out.matches[1].user_id_2 = engine_profiles[3].user_id
    /\ best_out.matches[1].overall_score > best_out.matches[2].overall_score

\* the places in the pool of the profiles that qualify for the answered query:
\* another subject's, complete, scoring at least min_score against the subject
Qualifying ==
    LET pool == engine_profiles
        subject == PoolProfile(pool, best_out.user_id)
    IN  { i \in 1..Len(pool) :
            /\ pool[i].user_id # best_out.user_id
            /\ pool[i].is_complete
            /\ CalculateMatchScore(subject, pool[i]).overall_score >= best_out.min_score }

\* the place in the pool of the other party of a returned entry
PlaceOf(match_score) ==
    CHOOSE i \in 1..Len(engine_profiles) :
        engine_profiles[i].user_id = match_score.user_id_2

\* entry x comes before entry y in the order of find_best_matches: the higher
\* score first, and of two equal scores the one inserted into the pool earlier
Before(score_x, place_x, score_y, place_y) ==
    score_x > score_y \/ (score_x = score_y /\ place_x < place_y)

\* C12: find_best_matches returns exactly the first limit elements of the list
\* of all other complete pool profiles whose overall_score against the subject
\* is >= min_score, in descending order of overall_score with equal scores in
\* pool insertion order; a qualifying profile is left out only by the limit.
C12_BestMatchesAreTheTopOfTheRanking ==
    ( /\ Answered
      /\ best_out.limit >= 0
      /\ InPool(engine_profiles, best_out.user_id)
      /\ PoolProfile(engine_profiles, best_out.user_id).is_complete ) =>
        LET pool == engine_profiles
            subject == PoolProfile(pool, best_out.user_id)
            matches == best_out.matches
            shown == {PlaceOf(matches[k]) : k \in 1..Len(matches)}
            ScoreAt(i) == CalculateMatchScore(subject, pool[i]).overall_score
        IN  /\ Len(matches) = Min(best_out.limit, Cardinality(Qualifying))
            /\ Cardinality(shown) = Len(matches)
            /\ shown \subseteq Qualifying
            /\ \A k \in 1..Len(matches) :
                  /\ InPool(pool, matches[k].user_id_2)
                  /\ matches[k] = CalculateMatchScore(subject, pool[PlaceOf(matches[k])])
            /\ \A k \in 1..Len(matches) : \A l \in (k + 1)..Len(matches) :
                  Before(matches[k].overall_score, PlaceOf(matches[k]),
                         matches[l].overall_score, PlaceOf(matches[l]))
            /\ \A q \in Qualifying \ shown : \A k \in 1..Len(matches) :
                  Before(matches[k].overall_score, PlaceOf(matches[k]), ScoreAt(q), q)

\* C12 witness: two others score the same against the subject, the limit is 1,
\* and the one inserted earlier is the one returned.
C12_Witness ==
    /\ Answered
    /\ Len(engine_profiles) = 3
    /\ best_out.user_id = engine_profiles[3].user_id
    /\ best_out.limit = 1
    /\ best_out.min_score = Pct(59)
    /\ Qualifying = {1, 2}
    /\ CalculateMatchScore(engine_profiles[3], engine_profiles[1]).overall_score = Pct(59)
    /\ CalculateMatchScore(engine_profiles[3], engine_profiles[2]).overall_score = Pct(59)
    /\ Len(best_out.matches) = 1
    /\ best_out.matches[1].user_id_2 = engine_profiles[1].user_id

\* C13: find_best_matches returns the empty list, and no error, when the
\* subject has no profile in the pool or the subject's profile is not complete,
\* however many complete profiles the pool holds.
C13_NoMatchesWithoutCompleteSubject ==
    ( /\ Answered
      /\ \/ ~InPool(engine_profiles, best_out.user_id)
         \/ ~PoolProfile(engine_profiles, best_out.user_id).is_complete ) =>
        best_out.matches = <<>>

\* C13 witness: the subject's profile is in the pool and not complete, the two
\* others are complete, nothing is filtered and nothing cut, and the list is empty.
C13_Witness ==
    /\ Answered
    /\ Len(engine_profiles) = 3
    /\ InPool(engine_profiles, best_out.user_id)
    /\ ~PoolProfile(engine_profiles, best_out.user_id).is_complete
    /\ Cardinality({i \in 1..3 : engine_profiles[i].is_complete}) = 2
    /\ best_out.limit = 2
    /\ best_out.min_score = 0
    /\ best_out.matches = <<>>

-----------------------------------------------------------------------------
(* Properties of the single rules of the matching engine *)

\* the traits COMPATIBILITY_RULES scores by the similar rule
SimilarTraits == {t \in Traits : COMPATIBILITY_RULES[t] = "similar"}

\* C21: for the similar policy (openness, conscientiousness, agreeableness)
\* the compatibility of (a,b) equals that of (b,a), and that of (a,a) is 1.0;
\* for the low_both policy (neuroticism) the compatibility of (0,0) is 1.0
\* and that of (1,1) is 0.0.
C21_SimilarIsSymmetricLowBothEnds ==
    ScoredPair =>
        LET back == CalculateTraitCompatibility(Second, First)
        IN  /\ SimilarTraits = {"openness", "conscientiousness", "agreeableness"}
            /\ \A t \in SimilarTraits :
                  /\ match_out.trait_compatibility[t] = back[t]
                  /\ First[t] = Second[t] => match_out.trait_compatibility[t] = Scale
            /\ COMPATIBILITY_RULES["neuroticism"] = "low_both"
            /\ (First.neuroticism = 0 /\ Second.neuroticism = 0) =>
                  match_out.trait_compatibility.neuroticism = Scale
            /\ (First.neuroticism = Scale /\ Second.neuroticism = Scale) =>
                  match_out.trait_compatibility.neuroticism = 0

\* C21 witness: two subjects at 1.0 in every trait were scored; the similar
\* traits come out at 1.0 and neuroticism at 0.0.
C21_Witness ==
    /\ ScoredPair
    /\ last.user # last.result
    /\ \A t \in Traits : First[t] = Scale /\ Second[t] = Scale
    /\ \A t \in SimilarTraits : match_out.trait_compatibility[t] = Scale
    /\ match_out.trait_compatibility.neuroticism = 0

\* the interest names of a profile, case-normalised
Normalised(profile) == {Lower(x) : x \in SetOf(profile.interests)}

\* C22: interest overlap is symmetric in its two arguments, is exactly 0.5
\* when either interest list is empty, and otherwise is the Jaccard similarity
\* of the case-normalised sets, plus 0.1 when they share at least two
\* elements, capped at 1.0; it always lies in [0,1].
C22_InterestOverlapIsJaccardWithBonus ==
    ScoredPair =>
        LET common == Cardinality(Normalised(First) \cap Normalised(Second))
            all == Cardinality(Normalised(First) \cup Normalised(Second))
            raised == IF common >= 2 THEN Pct(10) * all ELSE 0
        IN  /\ match_out.interest_overlap =
                  CalculateMatchScore(Second, First).interest_overlap
            /\ (First.interests = <<>> \/ Second.interests = <<>>) =>
                  match_out.interest_overlap = Pct(50)
            /\ (First.interests # <<>> /\ Second.interests # <<>>) =>
                  match_out.interest_overlap =
                      Min(Scale, RoundDiv(common * Scale + raised, all))
            /\ match_out.interest_overlap >= 0
            /\ match_out.interest_overlap <= Scale

\* C22 witness: lists that differ in case and share two of three names give
\* 2/3 + 0.1, returned as 0.767.
C22_Witness ==
    /\ ScoredPair
    /\ First.interests = <<"muzik", "Kitap">>
    /\ Second.interests = <<"Muzik", "kitap", "spor">>
    /\ match_out.interest_overlap = 767

\* the cap of C22 happens as well: equal lists of two names give 1.0, not 1.1
OverlapCapped ==
    /\ ScoredPair
    /\ First.interests = <<"muzik", "Kitap">>
    /\ Second.interests = <<"muzik", "Kitap">>
    /\ match_out.interest_overlap = Scale

-----------------------------------------------------------------------------
(* Properties of a profile over its sessions *)

\* C23: profile.interests is non-empty only for profiles with is_complete =
\* true: no sequence of start_session, process_message and end_session lets an
\* incomplete profile acquire interests.
C23_InterestsOnlyWhenComplete ==
    \A u \in DOMAIN user_profiles :
        user_profiles[u].interests # <<>> => user_profiles[u].is_complete

\* the values the profile's communication_style is documented to take
StyleEnumeration == {"direct", "diplomatic", "expressive", "reserved"}

\* C24: in every reachable state profile.communication_style is unset or one
\* of direct, diplomatic, expressive, reserved; no sequence of session
\* operations, start_session followed at once by end_session included, stores
\* any other value.
C24_StyleStaysInEnumeration ==
    \A u \in DOMAIN user_profiles :
        user_profiles[u].communication_style \in StyleEnumeration \cup {None}

-----------------------------------------------------------------------------
(* Frame properties *)

\* C25: find_best_matches, and calculate_match_score which it calls on every
\* pair it scans, are read-only: a query leaves every field of every profile
\* of the pool, and the pool's membership and order, unchanged.
C25_MatchingIsReadOnly ==
    [][best_out'.user_id # "none" => engine_profiles' = engine_profiles]_vars

\* C25 witness: a query was answered with two scored pairs from a pool of
\* three profiles, one of which holds an interest name with a capital.
C25_Witness ==
    /\ Answered
    /\ Len(engine_profiles) = 3
    /\ Len(best_out.matches) = 2
    /\ best_out.min_score = Pct(59)
    /\ \E i \in 1..3 : "Kitap" \in SetOf(engine_profiles[i].interests)

\* C26: there is at most one profile per subject and it outlives sessions:
\* start_session creates a default profile only when the subject has none and
\* never replaces or resets an existing profile (its trait scores, its
\* is_complete), and after end_session has removed the active session the
\* profile is still returned by get_profile for that subject.
C26_ProfileOutlivesSessions ==
    /\ [](\A u \in DOMAIN user_profiles : user_profiles[u].user_id = u)
    /\ [][ LET u == last'.user
           IN  /\ DOMAIN user_profiles \subseteq DOMAIN user_profiles'
               /\ last'.op = "start_session" =>
                     /\ u \in DOMAIN user_profiles'
                     /\ IF u \in DOMAIN user_profiles
                        THEN user_profiles' = user_profiles
                        ELSE user_profiles'[u] = PersonalityProfile(u)
               /\ (last'.op = "process_message" /\ u \in DOMAIN user_profiles) =>
                     last'.before = user_profiles[u]
               /\ (last'.op = "end_session" /\ last'.result = "profile") =>
                     /\ u \notin DOMAIN active_sessions'
                     /\ u \in DOMAIN user_profiles'
                     /\ \A t \in Traits : user_profiles'[u][t] = user_profiles[u][t]
                     /\ user_profiles'[u].is_complete = user_profiles[u].is_complete
                     /\ user_profiles'[u].analysis_confidence =
                           user_profiles[u].analysis_confidence
         ]_vars

\* C26 witness: a second session has just been started for a subject whose
\* profile was completed in the first; no session message has been sent yet
\* and the profile still holds what the first session left.
C26_Witness ==
    /\ last.op = "start_session"
    /\ sessions_started = 2
    /\ last.user \in DOMAIN active_sessions
    /\ active_sessions[last.user].messages.user = 0
    /\ last.user \in DOMAIN user_profiles
    /\ LastProfile.is_complete
    /\ LastProfile.total_messages_analyzed = CompleteAt
    /\ LastProfile.openness # Pct(50)

\* the other half of C26 happens as well: end_session has removed the session
\* of a subject whose profile is held on
ProfileHeldAfterEndSession ==
    /\ last.op = "end_session"
    /\ last.result = "profile"
    /\ last.user \notin DOMAIN active_sessions
    /\ last.user \in DOMAIN user_profiles
    /\ LastProfile.total_messages_analyzed = 3

\* C27: in every state reachable by start_session, process_message and
\* end_session, over any number of sessions of the same subject,
\* profile.is_complete = true implies profile.analysis_confidence >= 0.6.
C27_CompleteImpliesConfident ==
    \A u \in DOMAIN user_profiles :
        user_profiles[u].is_complete => user_profiles[u].analysis_confidence >= Pct(60)

\* C28: within one session whose calls run one after the other,
\* is_analysis_complete is true exactly from the process_message that handles
\* the 30th subject message on: the confidence min(0.95, n/50) is at least 0.6
\* exactly when n >= 30, so the confidence test never delays completion; and
\* after each process_message, session.is_analysis_complete implies
\* profile.is_complete.
C28_CompleteExactlyAtThirtieth ==
    \A u \in DOMAIN active_sessions :
        LET session == active_sessions[u]
            n == session.messages.user
        IN  /\ session.is_analysis_complete <=> n >= 30
            /\ session.is_analysis_complete => user_profiles[u].is_complete
            /\ n >= 1 =>
                  /\ user_profiles[u].total_messages_analyzed = n
                  /\ user_profiles[u].analysis_confidence >= Pct(60) <=> n >= 30

\* C28 witness: the second session of a subject has just taken its 30th
\* message, after a first session of one message, and is complete at a
\* confidence of exactly 0.6.
C28_Witness ==
    /\ last.op = "process_message"
    /\ last.message_count = 30
    /\ sessions_started = 2
    /\ msgs_sent = 31
    /\ active_sessions[last.user].is_analysis_complete
    /\ LastProfile.analysis_confidence = Pct(60)
    /\ LastProfile.is_complete

-----------------------------------------------------------------------------
(* Properties of calls in flight together *)

\* the call in slot t has just had its profile update
Updated(t) == tasks[t].pc = "analyze_message" /\ tasks'[t].pc = "generate_response"

\* C29: within one session each profile update uses a message_count strictly
\* greater than the one the previous update of the session used, and the k-th
\* subject message is folded in with message_count = k, also when two
\* process_message calls of the subject interleave at the classifier's
\* suspension point between appending the message and counting the messages.
C29_UpdateCountsIncrease ==
    [][\A t \in TaskIds :
          Updated(t) =>
              /\ tasks'[t].message_count >
                    user_profiles[tasks[t].user].total_messages_analyzed
              /\ tasks'[t].message_count = tasks[t].k]_vars

\* C30: a profile is never observable with is_complete = true before its
\* completion-time enrichment has run: in every state another request can
\* see, the suspension points inside process_message between the profile
\* update and the enrichment included, is_complete = true implies that
\* communication_style has been set.
C30_CompleteOnlyAfterEnrichment ==
    \A u \in DOMAIN user_profiles :
        user_profiles[u].is_complete => user_profiles[u].communication_style # None

====
